---- MODULE Spec2Model ----
(***************************************************************************)
(* Model of Scripts/CST/solver_module.py: the spectral transforms FFT and  *)
(* DFT, the longitudinal wake potential calc_long_WP and the transverse    *)
(* wake potential calc_trans_WP.                                           *)
(*                                                                         *)
(* Numbers.  The program computes in IEEE doubles.  The model computes     *)
(* exactly, in the field Q(sqrt 3): a number is a triple <<a, b, d>>       *)
(* standing for (a + b*sqrt(3))/d with d > 0 and gcd(a, b, d) = 1.         *)
(* Rationals are the triples with b = 0.  sqrt(3) is needed because the    *)
(* twiddle factors of the transforms of size 1, 2, 3, 4, 6 and 12 lie in   *)
(* this field, so those transforms are computed exactly.  Rounding error   *)
(* of the doubles is not modelled.                                         *)
(*                                                                         *)
(* Units.  Times are counted in ticks and lengths in light-ticks, so the   *)
(* speed of light c is 1; charges are counted in picocoulombs, so the      *)
(* factor q*1e12 of the program is the number qpC of the model.            *)
(***************************************************************************)
EXTENDS Integers, Sequences, FiniteSets, TLC

----------------------------------------------------------------------------
(* Exact arithmetic                                                        *)

Abs(n) == IF n < 0 THEN -n ELSE n

RECURSIVE GCD(_, _)
GCD(m, n) == IF n = 0 THEN m ELSE GCD(n, m % n)

\* the normal form of (a + b*sqrt(3))/d, d # 0
Norm(a, b, d) ==
    LET g == GCD(GCD(Abs(a), Abs(b)), Abs(d))
        sg == IF d < 0 THEN -1 ELSE 1
    IN  <<(sg * a) \div g, (sg * b) \div g, (sg * d) \div g>>

Num(n) == <<n, 0, 1>>
Frac(n, d) == Norm(n, 0, d)
Zero == Num(0)
One == Num(1)
Two == Num(2)
Sqrt3 == <<0, 1, 1>>

Add(x, y) == Norm(x[1] * y[3] + y[1] * x[3], x[2] * y[3] + y[2] * x[3], x[3] * y[3])
Neg(x) == <<-x[1], -x[2], x[3]>>
Sub(x, y) == Add(x, Neg(y))
Mul(x, y) == Norm(x[1] * y[1] + 3 * x[2] * y[2], x[1] * y[2] + x[2] * y[1], x[3] * y[3])
\* 1/x = d*(a - b*sqrt(3)) / (a^2 - 3*b^2); x # 0
Inv(x) == Norm(x[3] * x[1], -(x[3] * x[2]), x[1] * x[1] - 3 * x[2] * x[2])
Div(x, y) == Mul(x, Inv(y))
Sq(x) == Mul(x, x)

\* the sign of a + b*sqrt(3)
Sign(x) ==
    LET a == x[1]
        b == x[2]
        sa == IF a > 0 THEN 1 ELSE IF a < 0 THEN -1 ELSE 0
        sb == IF b > 0 THEN 1 ELSE IF b < 0 THEN -1 ELSE 0
    IN  IF sb = 0 THEN sa
        ELSE IF sa = 0 THEN sb
        ELSE IF sa = sb THEN sa
        ELSE IF a * a > 3 * b * b THEN sa ELSE sb

Less(x, y) == Sign(Sub(x, y)) < 0
LessEq(x, y) == Sign(Sub(x, y)) <= 0

\* Python's int(x) of a rational x: truncation toward zero
Trunc(x) == IF x[1] >= 0 THEN x[1] \div x[3] ELSE -((-x[1]) \div x[3])

\* the least integer >= x, x rational
Ceil(x) == -((-x[1]) \div x[3])

\* the sum of a sequence of numbers, added left to right
RECURSIVE SumSeq(_)
SumSeq(xs) == IF xs = <<>> THEN Zero ELSE Add(SumSeq(SubSeq(xs, 1, Len(xs) - 1)), xs[Len(xs)])

----------------------------------------------------------------------------
(* numpy and scipy.fftpack functions the program calls.  Sequences are     *)
(* indexed from 1: index i of the program is index i + 1 of the model.     *)

\* np.linspace(a, b, n): n points from a to b, both ends included
linspace(a, b, n) ==
    [k \in 1..n |-> IF n = 1 THEN a
                    ELSE Add(a, Div(Mul(Num(k - 1), Sub(b, a)), Num(n - 1)))]

\* np.arange(0, stop, step), step > 0: 0, step, 2*step, ... below stop
arange(stop, step) ==
    [k \in 1..Ceil(Div(stop, step)) |-> Mul(Num(k - 1), step)]

\* np.interp(x, xp, fp) at one point x: linear interpolation, clamped to
\* fp[first] and fp[last] outside the range of xp (xp increasing)
interp1(x, xp, fp) ==
    IF LessEq(x, xp[1]) THEN fp[1]
    ELSE IF LessEq(xp[Len(xp)], x) THEN fp[Len(fp)]
    ELSE LET j == CHOOSE j \in 1..(Len(xp) - 1) :
                      LessEq(xp[j], x) /\ Less(x, xp[j + 1])
             slope == Div(Sub(fp[j + 1], fp[j]), Sub(xp[j + 1], xp[j]))
         IN  Add(Mul(slope, Sub(x, xp[j])), fp[j])

\* np.interp(x, xp, fp) for an array x
interp(x, xp, fp) == [k \in 1..Len(x) |-> interp1(x[k], xp, fp)]

\* cos(2*pi*m/12) and sin(2*pi*m/12)
Cos12(m) ==
    LET r == m % 12
    IN  IF r = 0 THEN One
        ELSE IF r \in {1, 11} THEN <<0, 1, 2>>
        ELSE IF r \in {2, 10} THEN <<1, 0, 2>>
        ELSE IF r \in {3, 9} THEN Zero
        ELSE IF r \in {4, 8} THEN <<-1, 0, 2>>
        ELSE IF r \in {5, 7} THEN <<0, -1, 2>>
        ELSE <<-1, 0, 1>>
Sin12(m) == Cos12(m + 9)

\* the transform sizes whose twiddle factors lie in Q(sqrt 3)
ExactSize(n) == n >= 1 /\ 12 % n = 0

\* real and imaginary part of bin k (from 0) of the size-n transform of the
\* real sequence x, Len(x) = n:  sum_j x[j] * exp(-2*pi*i*j*k/n)
BinRe(x, k) ==
    LET n == Len(x)
    IN  SumSeq([j \in 1..n |-> Mul(x[j], Cos12((j - 1) * k * (12 \div n)))])
BinIm(x, k) ==
    LET n == Len(x)
    IN  Neg(SumSeq([j \in 1..n |-> Mul(x[j], Sin12((j - 1) * k * (12 \div n)))]))

\* np.fft.fft(x) of a real sequence: the bins 0..n-1 as <<re, im>>
fft(x) == [k \in 1..Len(x) |-> <<BinRe(x, k - 1), BinIm(x, k - 1)>>]

\* np.fft.fftfreq(n, d): 0, 1, ..., (n-1)//2, -(n//2), ..., -1, over n*d
fftfreq(n, d) ==
    [k \in 1..n |-> IF k - 1 <= (n - 1) \div 2
                    THEN Div(Num(k - 1), Mul(Num(n), d))
                    ELSE Div(Num(k - 1 - n), Mul(Num(n), d))]

\* x cut or zero-padded at the end to length n, as rfft(x, n) does
FixShape(x, n) == [k \in 1..n |-> IF k <= Len(x) THEN x[k] ELSE Zero]

\* scipy.fftpack.rfft(x, n): the packed real transform
\* [y(0), Re y(1), Im y(1), Re y(2), ...]
rfft(x, n) ==
    LET xn == FixShape(x, n)
    IN  [i \in 1..n |-> IF i = 1 THEN BinRe(xn, 0)
                        ELSE IF i % 2 = 0 THEN BinRe(xn, i \div 2)
                        ELSE BinIm(xn, i \div 2)]

\* scipy.fftpack.rfftfreq(n, d): 0, 1, 1, 2, 2, ... over n*d
rfftfreq(n, d) == [i \in 1..n |-> Div(Num(i \div 2), Mul(Num(n), d))]

\* a[mask] for a boolean mask: the elements of a where mask is true
RECURSIVE Select(_, _)
Select(a, mask) ==
    IF a = <<>> THEN <<>>
    ELSE LET n == Len(a)
             front == Select(SubSeq(a, 1, n - 1), SubSeq(mask, 1, n - 1))
         IN  IF mask[n] THEN Append(front, a[n]) ELSE front

\* |z|^2 of a complex number <<re, im>>
Abs2(z) == Add(Sq(z[1]), Sq(z[2]))

----------------------------------------------------------------------------
(* State                                                                   *)

VARIABLES
    fn,                 \* the function that was called
    pc,                 \* the position of the call in the function's body
    \* FFT(Xt, dt, fmax, r, flag_zeropadding) and DFT(Xt, dt, fmax, Nf)
    Xt, dt, fmax, r, flag_zeropadding, Nf,
    Xs,                 \* the sampled (and, in FFT, padded) signal
    pad,                \* FFT: the number of zeros added at each end
    Xfft, ffft,         \* FFT: the full spectrum and its frequencies
    Xf, f,              \* DFT: the packed transform and its frequencies;
                        \* at the end of both: the returned pair, Xf
                        \* without its real factor K = sqrt(K2)
    Et, Ef, K2,         \* the two energies of the Parseval check, K squared
    Z, Zf,              \* DFT: the reconstructed spectrum, its frequencies
    \* calc_long_WP: data (t, z, init_time, q) and the snapshots of Ez
    t, z, t_inj, qpC, Ez,
    s,                  \* the coordinate s; also the input of calc_trans_WP
    Ezi,                \* Ez on the grid zi: Ezi[k][n], z index k, time n
    WP,                 \* the accumulator of the line integral, one per s
    WP_3d,              \* WP_3d[x][y], x, y in 0..2: the wake potential
    i, j, n, k,         \* the loop counters
    \* calc_trans_WP(s, WP_3d) with the globals dx, dy
    dx, dy, int_WP, WPx, WPy

spectralVars == <<Xt, dt, fmax, r, flag_zeropadding, Nf, Xs, pad, Xfft, ffft,
                  Xf, f, Et, Ef, K2, Z, Zf>>

wakeVars == <<t, z, t_inj, qpC, Ez, s, Ezi, WP, WP_3d, i, j, n, k>>

transVars == <<dx, dy, int_WP, WPx, WPy>>

vars == <<fn, pc, spectralVars, wakeVars, transVars>>

----------------------------------------------------------------------------
(* FFT and DFT                                                             *)

MaxN == 3               \* the longest input signal
MaxSample == 1          \* the samples of Xt are the integers -1..MaxSample
MaxNf == 4              \* the largest Nf
MaxPadHalves == 2       \* the padding ratios r are 0, 1/2, ..., MaxPadHalves/2

Signals == UNION {[1..cnt -> {Num(v) : v \in (-1)..MaxSample}] : cnt \in 2..MaxN}
TimeSteps == {One, Frac(1, 2)}
MaxFrequencies == {"None", Frac(1, 4), Frac(1, 2), One}
PadRatios == {Frac(h, 2) : h \in 0..MaxPadHalves}
TransformSizes == {cnt \in 1..MaxNf : ExactSize(cnt)}

\* lines 27-28, 85-86: fmax defaults to 1/dt
fmaxOr(fm, d) == IF fm = "None" THEN Div(One, d) ELSE fm

\* lines 31-34, 40 and 89-92, 98
TotalTime(xt, d) == Mul(Num(Len(xt)), d)                     \* T = N*dt
SampleStep(fm, d) == Div(One, Mul(Two, fmaxOr(fm, d)))       \* dts
SampleCount(xt, d, fm) ==                                    \* Ns
    Div(Num(Len(xt)), Div(SampleStep(fm, d), d))

\* lines 37-39: FFT puts Xt on np.linspace(0, T, N)
FFT_sample(xt, d, fm) ==
    interp(arange(TotalTime(xt, d), SampleStep(fm, d)),
           linspace(Zero, TotalTime(xt, d), Len(xt)), xt)

\* lines 95-97: DFT puts Xt on np.arange(0, T, dt)
DFT_sample(xt, d, fm) ==
    interp(arange(TotalTime(xt, d), SampleStep(fm, d)),
           arange(TotalTime(xt, d), d), xt)

zeros(cnt) == [ix \in 1..cnt |-> Zero]

\* line 44
PadLength(ratio, ns) == Trunc(Mul(ratio, ns))

\* line 45 without the zeros appended at the end
Xpad_front(p, xs) == zeros(p) \o xs

\* line 45
Xpad(p, xs) == zeros(p) \o xs \o zeros(p)

\* line 52 with the comparison made strict
FFT_mask_strict(freqs) == [ix \in 1..Len(freqs) |-> Less(Zero, freqs[ix])]

\* line 52
FFT_mask(freqs) == [ix \in 1..Len(freqs) |-> LessEq(Zero, freqs[ix])]

\* line 54, without K
FFT_Xf(bins, freqs, ns) ==
    LET kept == Select(bins, FFT_mask(freqs))
    IN  [ix \in 1..Len(kept) |-> <<Div(Mul(Two, kept[ix][1]), ns),
                                  Div(Mul(Two, kept[ix][2]), ns)>>]

\* lines 64 and 111
TimeEnergy(xs) == SumSeq([ix \in 1..Len(xs) |-> Sq(xs[ix])])

\* line 65
FFT_Ef(bins, freqs) ==
    Div(SumSeq([ix \in 1..Len(bins) |-> Abs2(bins[ix])]), Num(Len(freqs)))

\* line 112
DFT_Ef(packed, freqs) ==
    Div(Add(Sq(packed[1]),
            Mul(Two, SumSeq([ix \in 1..(Len(packed) - 1) |-> Sq(packed[ix + 1])]))),
        Num(Len(freqs)))

\* lines 66 and 113: K*K = Et/Ef; numpy gives nan for 0/0 and inf for x/0
KSquared(et, ef) ==
    IF ef # Zero THEN Div(et, ef) ELSE IF et = Zero THEN "nan" ELSE "inf"

\* line 120
DFT_mask(cnt) == [ix \in 1..cnt |-> (ix - 1) % 2 = 0]

\* lines 125-126 and 137: the slots of the real parts
DFT_Re(cnt) ==
    [ix \in 1..cnt |-> IF cnt % 2 = 0 /\ ix = cnt THEN FALSE ELSE ~DFT_mask(cnt)[ix]]

\* lines 127-128 and 138-139 without Im[0]=False
DFT_Im_keep0(cnt) == DFT_mask(cnt)

\* lines 127-128 and 138-139: the slots of the imaginary parts
DFT_Im(cnt) == [ix \in 1..cnt |-> IF ix = 1 THEN FALSE ELSE DFT_mask(cnt)[ix]]

\* lines 121, 130-131 and 141-142
DFT_Z(packed, cnt) ==
    LET re == Select(packed, DFT_Re(cnt))
        im == Select(packed, DFT_Im(cnt))
    IN  <<<<packed[1], Zero>>>> \o [m \in 1..Len(re) |-> <<re[m], im[m]>>]

\* lines 122, 133-134 and 144-145
DFT_Zf(freqs, cnt) == <<Zero>> \o Select(freqs, DFT_Im(cnt))

\* line 147, without K
DFT_Xf(spectrum, ns) ==
    LET half == Div(ns, Two)
    IN  [m \in 1..Len(spectrum) |-> <<Div(spectrum[m][1], half), Div(spectrum[m][2], half)>>]

WakeIdle ==
    /\ t = <<>> /\ z = <<>> /\ t_inj = Zero /\ qpC = Zero /\ Ez = <<>>
    /\ s = <<>> /\ Ezi = <<>> /\ WP = <<>> /\ WP_3d = <<>>
    /\ i = 0 /\ j = 0 /\ n = 0 /\ k = 0

TransIdle ==
    /\ dx = Zero /\ dy = Zero /\ int_WP = <<>> /\ WPx = <<>> /\ WPy = <<>>

SpectralIdle ==
    /\ Xt = <<>> /\ dt = Zero /\ fmax = "None" /\ r = Zero
    /\ flag_zeropadding = FALSE /\ Nf = 0
    /\ Xs = <<>> /\ pad = 0 /\ Xfft = <<>> /\ ffft = <<>> /\ Xf = <<>>
    /\ f = <<>> /\ Et = Zero /\ Ef = Zero /\ K2 = Zero /\ Z = <<>> /\ Zf = <<>>

SpectralLocalsInit ==
    /\ Xs = <<>> /\ pad = 0 /\ Xfft = <<>> /\ ffft = <<>> /\ Xf = <<>>
    /\ f = <<>> /\ Et = Zero /\ Ef = Zero /\ K2 = Zero /\ Z = <<>> /\ Zf = <<>>

\* the size of the transform FFT will take of its input
FFT_size(xt, d, fm, ratio, flag) ==
    Len(FFT_sample(xt, d, fm))
      + (IF flag THEN 2 * PadLength(ratio, SampleCount(xt, d, fm)) ELSE 0)

InitFFT ==
    /\ fn = "FFT" /\ pc = "sample"
    /\ Xt \in Signals /\ dt \in TimeSteps /\ fmax \in MaxFrequencies
    /\ r \in PadRatios /\ flag_zeropadding \in BOOLEAN /\ Nf = 0
    /\ ExactSize(FFT_size(Xt, dt, fmax, r, flag_zeropadding))
    /\ SpectralLocalsInit

InitDFT ==
    /\ fn = "DFT" /\ pc = "sample"
    /\ Xt \in Signals /\ dt \in TimeSteps /\ fmax \in MaxFrequencies
    /\ r = Zero /\ flag_zeropadding = FALSE /\ Nf \in TransformSizes
    /\ SpectralLocalsInit

FFT_Sample ==
    /\ fn = "FFT" /\ pc = "sample"
    /\ Xs' = FFT_sample(Xt, dt, fmax)
    /\ pc' = "pad"
    /\ UNCHANGED <<fn, Xt, dt, fmax, r, flag_zeropadding, Nf, pad, Xfft, ffft,
                   Xf, f, Et, Ef, K2, Z, Zf>>
    /\ UNCHANGED <<wakeVars, transVars>>

FFT_Pad ==
    /\ fn = "FFT" /\ pc = "pad"
    /\ IF flag_zeropadding
       THEN /\ pad' = PadLength(r, SampleCount(Xt, dt, fmax))
            /\ Xs' = Xpad(pad', Xs)
       ELSE UNCHANGED <<pad, Xs>>
    /\ pc' = "transform"
    /\ UNCHANGED <<fn, Xt, dt, fmax, r, flag_zeropadding, Nf, Xfft, ffft,
                   Xf, f, Et, Ef, K2, Z, Zf>>
    /\ UNCHANGED <<wakeVars, transVars>>

FFT_Transform ==
    /\ fn = "FFT" /\ pc = "transform"
    /\ Xfft' = fft(Xs)
    /\ ffft' = fftfreq(Len(Xfft'), SampleStep(fmax, dt))
    /\ Xf' = FFT_Xf(Xfft', ffft', SampleCount(Xt, dt, fmax))
    /\ f' = Select(ffft', FFT_mask(ffft'))
    /\ pc' = "parseval"
    /\ UNCHANGED <<fn, Xt, dt, fmax, r, flag_zeropadding, Nf, Xs, pad,
                   Et, Ef, K2, Z, Zf>>
    /\ UNCHANGED <<wakeVars, transVars>>

FFT_Parseval ==
    /\ fn = "FFT" /\ pc = "parseval"
    /\ Et' = TimeEnergy(Xs)
    /\ Ef' = FFT_Ef(Xfft, ffft)
    /\ K2' = KSquared(Et', Ef')
    /\ pc' = "done"
    /\ UNCHANGED <<fn, Xt, dt, fmax, r, flag_zeropadding, Nf, Xs, pad, Xfft,
                   ffft, Xf, f, Z, Zf>>
    /\ UNCHANGED <<wakeVars, transVars>>

DFT_Sample ==
    /\ fn = "DFT" /\ pc = "sample"
    /\ Xs' = DFT_sample(Xt, dt, fmax)
    /\ pc' = "transform"
    /\ UNCHANGED <<fn, Xt, dt, fmax, r, flag_zeropadding, Nf, pad, Xfft, ffft,
                   Xf, f, Et, Ef, K2, Z, Zf>>
    /\ UNCHANGED <<wakeVars, transVars>>

DFT_Transform ==
    /\ fn = "DFT" /\ pc = "transform"
    /\ Xf' = rfft(Xs, Nf)
    /\ f' = rfftfreq(Len(Xf'), SampleStep(fmax, dt))
    /\ pc' = "parseval"
    /\ UNCHANGED <<fn, Xt, dt, fmax, r, flag_zeropadding, Nf, Xs, pad, Xfft,
                   ffft, Et, Ef, K2, Z, Zf>>
    /\ UNCHANGED <<wakeVars, transVars>>

DFT_Parseval ==
    /\ fn = "DFT" /\ pc = "parseval"
    /\ Et' = TimeEnergy(Xs)
    /\ Ef' = DFT_Ef(Xf, f)
    /\ K2' = KSquared(Et', Ef')
    /\ pc' = "unpack"
    /\ UNCHANGED <<fn, Xt, dt, fmax, r, flag_zeropadding, Nf, Xs, pad, Xfft,
                   ffft, Xf, f, Z, Zf>>
    /\ UNCHANGED <<wakeVars, transVars>>

DFT_Unpack ==
    /\ fn = "DFT" /\ pc = "unpack"
    /\ Z' = DFT_Z(Xf, Nf)
    /\ Zf' = DFT_Zf(f, Nf)
    /\ Xf' = DFT_Xf(Z', SampleCount(Xt, dt, fmax))
    /\ f' = Zf'
    /\ pc' = "done"
    /\ UNCHANGED <<fn, Xt, dt, fmax, r, flag_zeropadding, Nf, Xs, pad, Xfft,
                   ffft, Et, Ef, K2>>
    /\ UNCHANGED <<wakeVars, transVars>>

InitSpectral == (InitFFT \/ InitDFT) /\ WakeIdle /\ TransIdle

NextSpectral ==
    \/ FFT_Sample \/ FFT_Pad \/ FFT_Transform \/ FFT_Parseval
    \/ DFT_Sample \/ DFT_Transform \/ DFT_Parseval \/ DFT_Unpack

SpecSpectral == InitSpectral /\ [][NextSpectral]_vars

----------------------------------------------------------------------------
(* calc_long_WP.  read_Ez and the printed diagnostics are left out: the   *)
(* snapshots hf.get(dataset[n]) are the variable Ez, Ez[n][x][y] being the *)
(* field of snapshot n along z at the transverse cell (x, y).  The names   *)
(* out_folder and h5_name of read_Ez and unit of line 221 are not defined  *)
(* in the module; the model is of a call in which the caller has set them  *)
(* as globals, so that the computation is reached.  The array ts, which    *)
(* the program fills and reads back in the same pass, is the operator ts.  *)

c == 1                  \* the speed of light, in light-ticks per tick
i0 == 1                 \* line 230
j0 == 1                 \* line 231

MaxNt == 4              \* the largest number of snapshots
MaxInjHalves == 4       \* init_time is 0, 1/2, ..., MaxInjHalves/2 ticks
MaxSlope == 1           \* the largest transverse variation of the field
MaxCharge == 2          \* the largest charge q, in pC

Cells == 0..2

\* t = t0, t0 + dt, ..., nt samples, dt = 1 tick
TimeAxes ==
    {[m \in 1..nt |-> Num(t0 + m - 1)] : nt \in 3..MaxNt, t0 \in 0..1}
ZAxes == {<<Zero, One>>, <<One, Two, Num(3)>>}
InjectionTimes == {Frac(h, 2) : h \in 0..MaxInjHalves}

\* snapshot n of a field that grows with time and z and varies across
\* the transverse cells: by a in x, by b in y, by e at cell (0, 0)
Snapshot(a, b, e, nz, m) ==
    [x \in Cells |-> [y \in Cells |->
        [l \in 1..nz |->
            Num((1 + a * x + b * y + (IF x = 0 /\ y = 0 THEN e ELSE 0))
                * (m + l))]]]
Fields(nt, nz) ==
    {[m \in 1..nt |-> Snapshot(a, b, e, nz, m)] :
        a \in 0..MaxSlope, b \in 0..MaxSlope, e \in 0..MaxSlope}

\* lines 202-207
nt == Len(t)
dt_t == Sub(t[3], t[2])
zmax == z[Len(z)]
zmin == z[1]

\* lines 209-210
zi == linspace(zmin, zmax, nt)
dzi == Sub(zi[3], zi[2])

\* line 213
Wake_length ==
    Sub(Sub(Mul(Mul(Num(nt), dt_t), Num(c)), Sub(zmax, zmin)),
        Mul(t_inj, Num(c)))

\* lines 215-216
ns_neg == Trunc(Div(t_inj, dt_t))
ns_pos == Trunc(Div(Wake_length, Mul(dt_t, Num(c))))

\* lines 217-218
s_coordinate ==
    linspace(Neg(Mul(t_inj, Num(c))), Zero, ns_neg)
        \o linspace(Zero, Wake_length, ns_pos)

\* lines 238-241: the field at cell (x, y) of every snapshot, on the grid zi
Interpolate(field, x, y) ==
    [kk \in 1..nt |-> [m \in 1..nt |-> interp(zi, z, field[m][x][y])[kk]]]

\* line 258: the retarded time ts[k,n], k and n counted from 0
ts(kk, nn) ==
    Add(Sub(Sub(Div(Add(zi[kk + 1], s[nn + 1]), Num(c)), Div(zmin, Num(c))),
            t[1]),
        t_inj)

\* line 260 with the boundary let through
Gate_inclusive(time) == LessEq(Zero, time)

\* line 260: the causality gate
Gate(time) == Less(Zero, time)

\* line 261
TimeIndex(time) == Trunc(Div(time, dt_t)) - 1

\* Python's a[it] of an array of length len: a negative it counts from the
\* end, an it outside -len..len-1 raises IndexError
InRange(it, len) == -len <= it /\ it < len
PyIndex(it, len) == IF it < 0 THEN it + len ELSE it

\* line 262 raises IndexError at the pair (k, n)
Raises(kk, nn) ==
    Gate(ts(kk, nn)) /\ ~InRange(TimeIndex(ts(kk, nn)), nt)

\* lines 258-262: one pass of the body of the k loop on the accumulator wp
Accumulate(wp, ezi, kk, nn) ==
    IF Gate(ts(kk, nn))
    THEN LET it == PyIndex(TimeIndex(ts(kk, nn)), nt)
         IN  [wp EXCEPT ![nn + 1] = Add(@, Mul(ezi[kk + 1][it + 1], dzi))]
    ELSE wp

\* line 264
Normalize(wp) == [m \in 1..Len(wp) |-> Div(wp[m], qpC)]

\* lines 249-262: the s loop and the k loop, as the first steps passes of
\* the body of the k loop (n outer, k inner), started from wp
RECURSIVE AccumulateAll(_, _, _)
AccumulateAll(wp, ezi, steps) ==
    IF steps = 0 THEN wp
    ELSE Accumulate(AccumulateAll(wp, ezi, steps - 1), ezi,
                    (steps - 1) % nt, (steps - 1) \div nt)

\* lines 227-266: WP and WP_3d after the first count offsets of the loops
\* over i and j, for the snapshots field
RECURSIVE ProcessOffsets(_, _)
ProcessOffsets(field, count) ==
    IF count = 0
    THEN [WP |-> zeros(Len(s)),
          WP_3d |-> [x \in Cells |-> [y \in Cells |-> zeros(Len(s))]]]
    ELSE LET before == ProcessOffsets(field, count - 1)
             x == (count - 1) \div 3
             y == (count - 1) % 3
             wp == Normalize(AccumulateAll(before.WP, Interpolate(field, x, y),
                                           Len(s) * nt))
         IN  \* with an empty s every loop over s is empty
             IF Len(before.WP) = 0 THEN before
             ELSE [WP |-> wp, WP_3d |-> [before.WP_3d EXCEPT ![x][y] = wp]]

\* the WP_3d that calc_long_WP returns for the snapshots field
calc_long_WP(field) == ProcessOffsets(field, 9).WP_3d

WakeLocalsInit ==
    /\ s = <<>> /\ Ezi = <<>> /\ WP = <<>> /\ WP_3d = <<>>
    /\ i = 0 /\ j = 0 /\ n = 0 /\ k = 0

InitWake ==
    /\ fn = "calc_long_WP" /\ pc = "setup"
    /\ t \in TimeAxes /\ z \in ZAxes /\ t_inj \in InjectionTimes
    /\ qpC \in {Num(q) : q \in 1..MaxCharge}
    /\ Ez \in Fields(Len(t), Len(z))
    /\ LessEq(Zero, Wake_length)
    /\ WakeLocalsInit
    /\ SpectralIdle /\ TransIdle

\* lines 196-231
Long_Setup ==
    /\ fn = "calc_long_WP" /\ pc = "setup"
    /\ s' = s_coordinate
    /\ Ezi' = [kk \in 1..nt |-> zeros(nt)]
    /\ WP' = zeros(Len(s'))
    /\ WP_3d' = [x \in Cells |-> [y \in Cells |-> zeros(Len(s'))]]
    /\ i' = -i0 /\ j' = -j0
    /\ pc' = "interpolate"
    /\ UNCHANGED <<fn, t, z, t_inj, qpC, Ez, n, k, spectralVars, transVars>>

\* lines 237-241, and line 249 when there is nothing to accumulate
Long_Interpolate ==
    /\ fn = "calc_long_WP" /\ pc = "interpolate"
    /\ Ezi' = Interpolate(Ez, i0 + i, j0 + j)
    /\ n' = 0 /\ k' = 0
    /\ pc' = IF Len(s) = 0 THEN "normalize" ELSE "accumulate"
    /\ UNCHANGED <<fn, t, z, t_inj, qpC, Ez, s, WP, WP_3d, i, j,
                   spectralVars, transVars>>

\* lines 249-262: one pass of the body of the k loop
Long_Accumulate ==
    /\ fn = "calc_long_WP" /\ pc = "accumulate"
    /\ IF Raises(k, n)
       THEN /\ pc' = "IndexError"
            /\ UNCHANGED <<WP, n, k>>
       ELSE /\ WP' = Accumulate(WP, Ezi, k, n)
            /\ IF k + 1 < nt
               THEN /\ k' = k + 1
                    /\ UNCHANGED <<n, pc>>
               ELSE IF n + 1 < Len(s)
               THEN /\ k' = 0 /\ n' = n + 1
                    /\ UNCHANGED pc
               ELSE /\ pc' = "normalize"
                    /\ UNCHANGED <<n, k>>
    /\ UNCHANGED <<fn, t, z, t_inj, qpC, Ez, s, Ezi, WP_3d, i, j,
                   spectralVars, transVars>>

\* lines 264-266, and the step of the loops of lines 234-235
Long_Normalize ==
    /\ fn = "calc_long_WP" /\ pc = "normalize"
    /\ WP' = Normalize(WP)
    /\ WP_3d' = [WP_3d EXCEPT ![i0 + i][j0 + j] = WP']
    /\ IF j < j0
       THEN /\ j' = j + 1 /\ UNCHANGED i /\ pc' = "interpolate"
       ELSE IF i < i0
       THEN /\ j' = -j0 /\ i' = i + 1 /\ pc' = "interpolate"
       ELSE /\ UNCHANGED <<i, j>> /\ pc' = "done"
    /\ UNCHANGED <<fn, t, z, t_inj, qpC, Ez, s, Ezi, n, k,
                   spectralVars, transVars>>

NextWake ==
    Long_Setup \/ Long_Interpolate \/ Long_Accumulate \/ Long_Normalize

SpecWake == InitWake /\ [][NextWake]_vars

----------------------------------------------------------------------------
(* calc_trans_WP(s, WP_3d).  The function reads dx and dy, which it        *)
(* neither takes as arguments nor defines: they are globals of the module  *)
(* that the caller has to set (cube_cavity.py computes them from its       *)
(* grid).  The model takes them as inputs of the call.                     *)

MaxNs == 4              \* the longest coordinate array s
MaxLevel == 1           \* the wake potential levels are -1..MaxLevel

\* coordinate arrays: evenly spaced ones, and the shape calc_long_WP
\* returns, whose two segments both hold the point 0
Coordinates ==
    {linspace(Num(lo), Num(hi), cnt) :
        lo \in {-1, 0}, hi \in {1, 2}, cnt \in 3..MaxNs}
    \cup {linspace(Num(-2), Zero, 2) \o linspace(Zero, One, cnt) :
            cnt \in 1..(MaxNs - 2)}

\* wake potentials b0 + b1*m along s, tilted by gx in x and by gy in y
Potential(b0, b1, gx, gy, len) ==
    [x \in Cells |-> [y \in Cells |->
        [m \in 1..len |-> Num(b0 + b1 * m + gx * x * m + gy * y)]]]
Potentials(len) ==
    {Potential(b0, b1, gx, gy, len) :
        b0 \in (-1)..MaxLevel, b1 \in 0..1, gx \in 0..MaxSlope,
        gy \in 0..MaxSlope}
CellSizes == {One, Frac(1, 2)}

\* line 280
ds == Sub(s[3], s[2])

\* line 291 with the slice taken as 0:n+1
Integral_inclusive(w, nn, step) ==
    Mul(SumSeq(SubSeq(w, 1, nn + 1)), step)

\* line 291: np.sum(w[0:n])*ds
Integral(w, nn, step) == Mul(SumSeq(SubSeq(w, 1, nn)), step)

\* lines 294-295 with the difference written as a sum
Gradient_sum(hi, lo, size) == Neg(Div(Add(hi, lo), Mul(Two, size)))

\* lines 294-295: the centred difference, negated
Gradient(hi, lo, size) == Neg(Div(Sub(hi, lo), Mul(Two, size)))

InitTrans ==
    /\ fn = "calc_trans_WP" /\ pc = "loop"
    /\ s \in Coordinates /\ WP_3d \in Potentials(Len(s))
    /\ dx \in CellSizes /\ dy \in CellSizes
    /\ WPx = zeros(Len(s)) /\ WPy = zeros(Len(s))
    /\ int_WP = [x \in Cells |-> [y \in Cells |-> zeros(Len(s))]]
    /\ n = 0
    /\ t = <<>> /\ z = <<>> /\ t_inj = Zero /\ qpC = Zero /\ Ez = <<>>
    /\ Ezi = <<>> /\ WP = <<>> /\ i = 0 /\ j = 0 /\ k = 0
    /\ SpectralIdle

\* lines 287-295: one pass of the body of the n loop
Trans_Step ==
    /\ fn = "calc_trans_WP" /\ pc = "loop"
    /\ int_WP' = [x \in Cells |-> [y \in Cells |->
                    [int_WP[x][y] EXCEPT ![n + 1] = Integral(WP_3d[x][y], n, ds)]]]
    /\ WPx' = [WPx EXCEPT ![n + 1] =
                  Gradient(int_WP'[i0 + 1][j0][n + 1], int_WP'[i0 - 1][j0][n + 1], dx)]
    /\ WPy' = [WPy EXCEPT ![n + 1] =
                  Gradient(int_WP'[i0][j0 + 1][n + 1], int_WP'[i0][j0 - 1][n + 1], dy)]
    /\ n' = n + 1
    /\ pc' = IF n + 1 < Len(s) THEN "loop" ELSE "done"
    /\ UNCHANGED <<fn, s, WP_3d, dx, dy, t, z, t_inj, qpC, Ez, Ezi, WP, i, j, k,
                   spectralVars>>

NextTrans == Trans_Step

SpecTrans == InitTrans /\ [][NextTrans]_vars

----------------------------------------------------------------------------
(* Any call of the four functions                                          *)

Init == InitSpectral \/ InitWake \/ InitTrans

Next == NextSpectral \/ NextWake \/ NextTrans

Spec == Init /\ [][Next]_vars

----------------------------------------------------------------------------
(* Properties of calc_long_WP                                              *)

\* the run replayed by calc_long_WP(Ez) is the run of the actions
ReplayAgrees ==
    (fn = "calc_long_WP" /\ pc = "done") => WP_3d = calc_long_WP(Ez)

\* C1: for t_inj > 0 with ns_neg >= 1 and ns_pos >= 1 the coordinate s is
\* strictly increasing and s[ns_neg-1] < 0 <= s[ns_neg].
C1_Increasing ==
    (/\ fn = "calc_long_WP" /\ pc # "setup"
     /\ Less(Zero, t_inj) /\ ns_neg >= 1 /\ ns_pos >= 1) =>
        /\ \A m \in 1..(Len(s) - 1) : Less(s[m], s[m + 1])
        /\ Less(s[ns_neg], Zero)
        /\ LessEq(Zero, s[ns_neg + 1])

\* the value the claim C2 gives for WP_3d[x][y][m-1]
LineIntegral(x, y, m) ==
    LET own == Interpolate(Ez, x, y)
        term(kk) ==
            IF Sign(ts(kk - 1, m - 1)) > 0
            THEN Mul(own[kk][PyIndex(TimeIndex(ts(kk - 1, m - 1)), nt) + 1], dzi)
            ELSE Zero
    IN  Div(SumSeq([kk \in 1..nt |-> term(kk)]), qpC)

\* C2: for each of the 9 offsets and every index n, WP_3d[i,j,n] is the sum
\* over the z indices k with ts[k,n] > 0 of Ezi_ij[k, it] * dzi, divided
\* once by q*1e12: the accumulator of each offset starts from zero.
C2_LineIntegral ==
    (fn = "calc_long_WP" /\ pc = "done") =>
        \A x \in Cells, y \in Cells, m \in 1..Len(s) :
            WP_3d[x][y][m] = LineIntegral(x, y, m)

\* C3: two runs whose snapshots agree at the offset (x, y) give the same
\* WP_3d[x][y], whatever the snapshots hold at the other offsets.
C3_Independent ==
    (fn = "calc_long_WP" /\ pc = "done") =>
        \A other \in Fields(nt, Len(z)), x \in Cells, y \in Cells :
            (\A m \in 1..nt : other[m][x][y] = Ez[m][x][y])
                => calc_long_WP(other)[x][y] = WP_3d[x][y]

\* C4: a pass of the k loop whose retarded time ts[k,n] is zero or negative
\* leaves WP unchanged; only a pair with ts[k,n] > 0 changes WP[n].
C4_Causality ==
    [][(fn = "calc_long_WP" /\ pc = "accumulate" /\ Sign(ts(k, n)) <= 0)
           => WP' = WP]_vars

\* the pair k = 0, n = 0 of the first offset had retarded time exactly 0, has
\* been passed and left WP[0] at 0; the next pair is to be accumulated
C4_Witness ==
    /\ fn = "calc_long_WP" /\ pc = "accumulate"
    /\ i = -i0 /\ j = -j0 /\ n = 0 /\ k = 1
    /\ ts(0, 0) = Zero
    /\ Ezi[1][nt] # Zero
    /\ WP[1] = Zero
    /\ Sign(ts(k, n)) > 0

\* C12: for every pair (k, n) that passes the gate ts[k,n] > 0, the time
\* index it = int(ts[k,n]/dt) - 1 that reads Ezi[k, it] satisfies
\* 0 <= it <= nt-1: no accepted pair has it = -1 and none is beyond the last
\* snapshot.
C12_IndexInRange ==
    (fn = "calc_long_WP" /\ pc = "accumulate" /\ Sign(ts(k, n)) > 0) =>
        /\ 0 <= TimeIndex(ts(k, n))
        /\ TimeIndex(ts(k, n)) <= nt - 1

\* the upper half of C12 alone
C12_NotBeyondLast ==
    (fn = "calc_long_WP" /\ pc = "accumulate" /\ Sign(ts(k, n)) > 0) =>
        TimeIndex(ts(k, n)) <= nt - 1

\* C13: the coordinate s that calc_long_WP builds is evenly spaced: the step
\* ds = s[2] - s[1] that calc_trans_WP uses equals s[n+1] - s[n] for all n.
C13_EvenlySpaced ==
    (fn = "calc_long_WP" /\ pc # "setup" /\ Len(s) >= 3) =>
        \A m \in 1..(Len(s) - 1) : Sub(s[m + 1], s[m]) = ds

----------------------------------------------------------------------------
(* Properties of calc_trans_WP                                             *)

\* w[0] + ... + w[m-1], indices from 0, for a sequence w
RECURSIVE SumBelow(_, _)
SumBelow(w, m) == IF m = 0 THEN Zero ELSE Add(SumBelow(w, m - 1), w[m])

TransDone == fn = "calc_trans_WP" /\ pc = "done"

\* C5: when all 9 offsets of WP_3d hold the same sequence, WPx and WPy have
\* the length of s and every element is exactly 0.
C5_ZeroGradient ==
    (TransDone /\ \A x \in Cells, y \in Cells : WP_3d[x][y] = WP_3d[i0][j0]) =>
        /\ Len(WPx) = Len(s) /\ Len(WPy) = Len(s)
        /\ \A m \in 1..Len(s) : WPx[m] = Zero /\ WPy[m] = Zero

C5_Witness ==
    /\ TransDone
    /\ \A x \in Cells, y \in Cells : WP_3d[x][y] = WP_3d[i0][j0]
    /\ ds # Zero
    /\ int_WP[i0 + 1][j0][Len(s)] # Zero
    /\ WPx[Len(s)] = Zero /\ WPy[Len(s)] = Zero

\* C8: int_WP[i,j,n] is ds times the sum of WP_3d[i,j,k] over k < n, WPx[n]
\* and WPy[n] are the negated centred differences of int_WP over 2*dx and
\* 2*dy, and so WPx[0] = WPy[0] = 0.
C8_PanofskyWenzel ==
    TransDone =>
        /\ \A x \in Cells, y \in Cells, m \in 1..Len(s) :
               int_WP[x][y][m] = Mul(ds, SumBelow(WP_3d[x][y], m - 1))
        /\ \A m \in 1..Len(s) :
               /\ WPx[m] = Div(Mul(ds, Sub(SumBelow(WP_3d[0][1], m - 1),
                                           SumBelow(WP_3d[2][1], m - 1))),
                               Mul(Two, dx))
               /\ WPy[m] = Div(Mul(ds, Sub(SumBelow(WP_3d[1][0], m - 1),
                                           SumBelow(WP_3d[1][2], m - 1))),
                               Mul(Two, dy))
        /\ WPx[1] = Zero /\ WPy[1] = Zero

C8_Witness ==
    /\ TransDone /\ Len(s) >= 4
    /\ WP_3d[2][1][1] # WP_3d[0][1][1]
    /\ WPx[2] # Zero /\ WPx[3] # WPx[2] /\ WPy[Len(s)] # Zero
    /\ WPx[Len(s)] # WPy[Len(s)]

----------------------------------------------------------------------------
(* Properties of FFT and DFT                                               *)

Returned == pc = "done" /\ fn \in {"FFT", "DFT"}

\* C6: the pair (Xf, f) returned by FFT and by DFT has len(Xf) = len(f),
\* f is ascending, f[0] is exactly 0 and 0 occurs exactly once in f.
C6_Spectrum ==
    Returned =>
        /\ Len(Xf) = Len(f)
        /\ Len(f) >= 1
        /\ f[1] = Zero
        /\ \A ix \in 1..(Len(f) - 1) : Less(f[ix], f[ix + 1])
        /\ Cardinality({ix \in 1..Len(f) : f[ix] = Zero}) = 1

C6_Witness ==
    /\ Returned /\ fn = "FFT" /\ flag_zeropadding /\ pad > 0
    /\ Len(f) >= 3 /\ Len(Xfft) > Len(f)

\* C7: the time-domain energy Et equals the frequency-domain energy Ef the
\* routine computes, for FFT and for DFT, for every Nf.
C7_Parseval == Returned => Et = Ef

\* the part of C7 about FFT alone
C7_ParsevalFFT == (Returned /\ fn = "FFT") => Et = Ef

\* C9: Z[0] is the DC coefficient at frequency 0, Z[m] pairs the packed
\* coefficients 2m-1 and 2m and has the frequency of packed slot 2m, the
\* length of Z is Nf/2 for even Nf and (Nf+1)/2 for odd Nf, so that the
\* last packed coefficient of an even Nf is dropped; the same index rule
\* holds for both parities.
C9_Unpack ==
    (Returned /\ fn = "DFT") =>
        LET packed == rfft(Xs, Nf)
            fpacked == rfftfreq(Nf, SampleStep(fmax, dt))
        IN  /\ Len(Z) = (IF Nf % 2 = 0 THEN Nf \div 2 ELSE (Nf + 1) \div 2)
            /\ Len(Zf) = Len(Z)
            /\ Z[1] = <<packed[1], Zero>>
            /\ Zf[1] = Zero
            /\ \A m \in 1..(Len(Z) - 1) :
                   /\ Z[m + 1] = <<packed[2 * m], packed[2 * m + 1]>>
                   /\ Zf[m + 1] = fpacked[2 * m + 1]

C9_Witness ==
    /\ Returned /\ fn = "DFT" /\ Nf = 4
    /\ rfft(Xs, Nf)[4] # Zero
    /\ Z[2][1] # Zero /\ Z[2][2] # Zero /\ Z[2][1] # Z[2][2]

\* C10: the sampled signal DFT transforms equals, sample for sample, the
\* unpadded sampled signal FFT computes from the same Xt, dt and fmax.
C10_SameSampling ==
    (fn = "DFT" /\ pc # "sample") => Xs = FFT_sample(Xt, dt, fmax)

\* C11: with zero-padding enabled the signal FFT transforms is the sampled
\* signal with exactly pad = floor(r*Ns) zeros before it and pad zeros after
\* it, so its length is len(Xs) + 2*pad and the samples in between are the
\* sampled signal unchanged; with flag_zeropadding false it is the sampled
\* signal itself.
C11_Padding ==
    (fn = "FFT" /\ pc \in {"transform", "parseval", "done"}) =>
        LET sampled == FFT_sample(Xt, dt, fmax)
            exact == Mul(r, SampleCount(Xt, dt, fmax))
            width == IF flag_zeropadding THEN pad ELSE 0
        IN  /\ flag_zeropadding =>
                /\ LessEq(Num(pad), exact)
                /\ Less(exact, Num(pad + 1))
            /\ Len(Xs) = Len(sampled) + 2 * width
            /\ \A m \in 1..width :
                   Xs[m] = Zero /\ Xs[width + Len(sampled) + m] = Zero
            /\ \A m \in 1..Len(sampled) : Xs[width + m] = sampled[m]
            /\ pc # "transform" => Len(Xfft) = Len(Xs)

\* r*Ns is not a whole number, zeros were added and the signal is not zero
C11_Witness ==
    /\ fn = "FFT" /\ pc = "done" /\ flag_zeropadding
    /\ pad > 0
    /\ Mul(r, SampleCount(Xt, dt, fmax)) # Num(pad)
    /\ Xs[pad + 1] # Zero /\ Xs[Len(Xs) - pad] # Zero
    /\ Len(Xs) = Len(FFT_sample(Xt, dt, fmax)) + 2 * pad

====
